---- MODULE Spec2Model ----
(***************************************************************************)
(* Ledger and billing engine of the influbee backend: the wallet service,  *)
(* the Google Pay top-up / withdrawal service, chat message billing and    *)
(* user registration, over a PostgreSQL store accessed through Prisma.     *)
(*                                                                         *)
(* Every handler is cut at its awaits.  A Prisma interactive transaction   *)
(* runs at READ COMMITTED: its reads see the committed state at the time   *)
(* of the read, its writes (row inserts and relative increments) become    *)
(* visible together at commit.  A transaction whose reads only look up     *)
(* rows that are never deleted is taken as one step; a transaction that    *)
(* reads a balance, or the absence of a row, before it writes is taken as  *)
(* a read step followed by a commit step.                                  *)
(***************************************************************************)
EXTENDS Integers, Sequences, FiniteSets, TLC

\* ------------------------------------------------------------------ bounds
MaxOps == 3         \* requests the system accepts in one run
MaxGross == 1200    \* gross amounts 0..MaxGross are fed to the split

\* ------------------------------------------------------- program constants
MESSAGE_CHARGE == 100           \* processMessageCharge
messageCost == 10000            \* sendMessage
InitialUserBalance == 10000     \* register, role USER
MIN_TOPUP_AMOUNT == 10000
MIN_WITHDRAWAL_AMOUNT == 50000
MAX_WITHDRAWAL_AMOUNT == 10000000
RateVideo == 500
RateVoice == 350
MantBits == 53                  \* significand width of an IEEE-754 double
LimbBits == 13                  \* big numbers are kept in 13-bit limbs

\* --------------------------------------------------- Math.floor(amount*0.9)
\* The literal 0.9 is the double 0x3FECCCCCCCCCCCCD, that is
\* 0x1CCCCCCCCCCCCD * 2^-53.  Mant09 is that 53-bit significand in 13-bit
\* limbs, least significant first:
\*   3277 + 1638*2^13 + 4915*2^26 + 6553*2^39 + 1*2^52 = 8106479329266893.
Mant09 == << 3277, 1638, 4915, 6553, 1 >>

BitOf(n, i) == (n \div (2 ^ i)) % 2

\* The exact product amount * 0x1CCCCCCCCCCCCD in 13-bit limbs.
ProductLimbs(amount) ==
  LET RECURSIVE Go(_, _)
      Go(i, carry) ==
        IF i > Len(Mant09) THEN << carry >>
        ELSE LET s == amount * Mant09[i] + carry
             IN  << s % (2 ^ LimbBits) >> \o Go(i + 1, s \div (2 ^ LimbBits))
  IN Go(1, 0)

\* Bit k of a number kept in limbs.
LimbBit(P, k) ==
  IF k < 0 \/ k >= Len(P) * LimbBits THEN 0
  ELSE BitOf(P[(k \div LimbBits) + 1], k % LimbBits)

\* Index of the most significant set bit.
TopBit(P) ==
  LET RECURSIVE Down(_)
      Down(k) == IF k = 0 \/ LimbBit(P, k) = 1 THEN k ELSE Down(k - 1)
  IN Down(Len(P) * LimbBits - 1)

\* The product is P * 2^-53.  Rounding it to a double keeps the 53 bits from
\* TopBit down, ties to even; roundUp says whether the kept bits are
\* incremented, carries whether that increment reaches the integer part.
RoundsUp(P) ==
  LET top == TopBit(P)
  IN /\ LimbBit(P, top - MantBits) = 1
     /\ \/ \E k \in 0..(top - MantBits - 1) : LimbBit(P, k) = 1
        \/ LimbBit(P, top - MantBits + 1) = 1

CarriesToInteger(P) ==
  \A k \in (TopBit(P) - MantBits + 1)..(MantBits - 1) : LimbBit(P, k) = 1

\* floor(P * 2^-53)
IntegerPart(P) ==
  LET RECURSIVE Sum(_)
      Sum(k) == IF k >= Len(P) * LimbBits THEN 0
                ELSE LimbBit(P, k) * (2 ^ (k - MantBits)) + Sum(k + 1)
  IN Sum(MantBits)

\* Math.floor(amount * 0.9) in double arithmetic.
FloorTimes09(amount) ==
  IF amount = 0 THEN 0
  ELSE LET P == ProductLimbs(amount)
       IN IntegerPart(P)
            + (IF RoundsUp(P) /\ CarriesToInteger(P) THEN 1 ELSE 0)

\* Math.ceil(amount * 0.9) in double arithmetic.
CeilTimes09(amount) ==
  IF amount = 0 THEN 0
  ELSE LET P == ProductLimbs(amount)
           top == TopBit(P)
           fraction ==
             \E k \in (top - MantBits + 1)..(MantBits - 1) : LimbBit(P, k) = 1
       IN IF RoundsUp(P) /\ CarriesToInteger(P) THEN IntegerPart(P) + 1
          ELSE IF fraction \/ RoundsUp(P) THEN IntegerPart(P) + 1
          ELSE IntegerPart(P)

\* const receiverAmount = Math.floor(amount * 0.9);
ReceiverAmount(amount) == FloorTimes09(amount)

\* const revenueAmount = amount - receiverAmount;
RevenueAmount(amount) == amount - ReceiverAmount(amount)


\* ------------------------------------------------------------------- state
Users == {"ua", "ub", "inf"}
Workers == {"w1", "w2"}     \* request handlers that may be in flight together
NoUser == "-"               \* NULL userId of a system account
NoRef == "-"                \* NULL referenceId / idempotencyKey / token
NoAccount == << NoUser, 0 >> \* null result of account.findFirst

VARIABLES
  role,          \* users table: user id -> "NONE" (no row), "USER",
                 \* "INFLUENCER"
  accounts,      \* accounts table: row id -> [userId, accountType, balance];
                 \* the id << u, n >> is the n-th account created for u
  transactions,  \* transactions table: row id (index) -> row
  entries,       \* entries table: sequence of
                 \* [transactionId, accountId, amount, direction]
  messages,      \* messages table: sequence of [senderId, receiverId]
  req,           \* per request handler: the operation in flight and its locals
  started,       \* number of requests accepted so far
  gross,         \* input of the split calculation
  shares,        \* result of the split calculation, << >> before it ran
  connectedUsers, \* WalletGateway.connectedUsers: user ids with a socket
  emitted,       \* the 'balance:updated' events sent, in order:
                 \* [userId, balance], with the history of the event:
                 \* txid, the transaction whose handler sent it, and seen,
                 \* the number of committed rows when the balance was read
  pricing,       \* the configured prices PRICE_PER_MESSAGE,
                 \* PRICE_PER_MINUTE_VOICE, PRICE_PER_MINUTE_VIDEO; 0 is a
                 \* key that is not set
  quote,         \* a call cost computation: its inputs and, once it ran,
                 \* its results
  calls,         \* the rows of table calls, in order of creation; a call's
                 \* id is its index
  callEvents,    \* the events CallService emitted, in order; a call.ended
                 \* event records the sockets CallGateway notified of it
  now,           \* the clock: the number of timestamps taken so far
  chatClients,   \* ChatGateway: per socket, its connection state and
                 \* client.data.userId
  userSockets,   \* ChatGateway.userSockets: userId -> socket
  callClients,   \* CallGateway: per socket, its connection state and
                 \* client.data.userId
  callConnectedUsers,  \* CallGateway.connectedUsers: userId -> socket
  rtm,           \* the fields of the RTMManager singleton
  rtmClients,    \* the clients AgoraRTM.createInstance returned, in order,
                 \* each with the uid of its login and its login state
  rtmCall        \* per caller of the RTMManager, the position in its call

billing == << pricing, quote >>
calling == << calls, callEvents, now >>
chatGateway == << chatClients, userSockets >>
callGateway == << callClients, callConnectedUsers >>
rtmManager == << rtm, rtmClients, rtmCall >>
aux == << billing, calling, chatGateway, callGateway, rtmManager >>
vars == << role, accounts, transactions, entries, messages, req, started,
          gross, shares, connectedUsers, emitted, pricing, quote, calls,
          callEvents, now, chatClients, userSockets, callClients,
          callConnectedUsers, rtm, rtmClients, rtmCall >>
ledger == << role, accounts, transactions, entries, messages >>
gateway == << connectedUsers, emitted >>

\* n is the number of the request, 0 before the first one.
Idle == [n |-> 0, op |-> "none", pc |-> "idle", u1 |-> NoUser, u2 |-> NoUser,
         amount |-> 0, refund |-> 0, ref |-> NoRef, accs |-> << >>,
         txid |-> 0, bal |-> << >>, seen |-> 0, callId |-> 0,
         result |-> "-"]

\* The record of a request that was just accepted.
Request(op) == [Idle EXCEPT !.n = started + 1, !.op = op]

\* System bootstrap: the singleton REVENUE account that both payment
\* transactions look up; no user rows, no wallet rows.
RevenueBootstrap ==
  << NoUser, 1 >> :>
    [userId |-> NoUser, accountType |-> "REVENUE", balance |-> 0]

\* No price is configured and no call cost was asked for.
NoPricing == [message |-> 0, voiceCall |-> 0, videoCall |-> 0]
NoQuote == [durationInSeconds |-> 0, callType |-> "VOICE", cost |-> << >>]

BillingInit == pricing = NoPricing /\ quote = NoQuote

\* No call was made and the clock was not read.
CallingInit == calls = << >> /\ callEvents = << >> /\ now = 0

Sockets == {"s1", "s2"}
NoSocket == "-"
RtmCallers == {"k1", "k2"}

\* A socket that has not connected yet.
NewClient == [state |-> "new", userId |-> NoUser]

\* Both gateways start with an empty map and no socket connected.
ChatGatewayInit ==
  /\ chatClients = [s \in Sockets |-> NewClient]
  /\ userSockets = [u \in Users |-> NoSocket]
CallGatewayInit ==
  /\ callClients = [s \in Sockets |-> NewClient]
  /\ callConnectedUsers = [u \in Users |-> NoSocket]

\* RTMManager's field initializers; no caller is inside the manager.
NoClient == 0
RtmIdle == [n |-> 0, op |-> "none", pc |-> "idle", userId |-> NoUser,
            awaits |-> NoClient, got |-> NoClient, result |-> "-"]
RtmManagerInit ==
  /\ rtm = [rtmClient |-> NoClient, currentUserId |-> NoUser,
            isInitializing |-> FALSE, initializationPromise |-> NoClient]
  /\ rtmClients = << >>
  /\ rtmCall = [k \in RtmCallers |-> RtmIdle]

AuxInit ==
  /\ BillingInit
  /\ CallingInit
  /\ ChatGatewayInit
  /\ CallGatewayInit
  /\ RtmManagerInit

\* The empty database, no request in progress and no socket connected.
LedgerInit ==
  /\ role = [u \in Users |-> "NONE"]
  /\ accounts = RevenueBootstrap
  /\ transactions = << >>
  /\ entries = << >>
  /\ messages = << >>
  /\ req = [w \in Workers |-> Idle]
  /\ started = 0
  /\ gross = 0
  /\ shares = << >>
  /\ connectedUsers = {}
  /\ emitted = << >>

Init == LedgerInit /\ AuxInit

\* ----------------------------------------------------------- store helpers
\* account.findFirst({ where: { userId, accountType } }); type "ANY" is the
\* query without an accountType.  No ORDER BY: any matching row may come back.
Matching(userId, type) ==
  { i \in DOMAIN accounts :
      /\ accounts[i].userId = userId
      /\ (type = "ANY" \/ accounts[i].accountType = type) }

RevenueRows == { i \in DOMAIN accounts : accounts[i].accountType = "REVENUE" }

\* The row ids findFirst may return.
FindFirst(rows) == IF rows = {} THEN {NoAccount} ELSE rows

\* account.create({ data: { userId, accountType, balance } })
NewAccountId(userId) == << userId, Cardinality(Matching(userId, "ANY")) + 1 >>
CreateAccount(userId, accountType, balance) ==
  accounts @@ (NewAccountId(userId) :>
    [userId |-> userId, accountType |-> accountType, balance |-> balance])

\* WalletService.getBalance: account?.balance.toNumber() || 0
BalanceReads(userId) ==
  { IF i = NoAccount THEN 0 ELSE accounts[i].balance :
      i \in FindFirst(Matching(userId, "ANY")) }

\* account.update({ data: { balance: { increment: delta } } })
Increment(accts, id, delta) ==
  [accts EXCEPT ![id].balance = @ + delta]

NewTx(type, status, amount, userId, referenceId, key, token) ==
  [type |-> type, status |-> status, amount |-> amount, userId |-> userId,
   referenceId |-> referenceId, idempotencyKey |-> key, paymentToken |-> token]

NewEntry(transactionId, accountId, amount, direction) ==
  [transactionId |-> transactionId, accountId |-> accountId,
   amount |-> amount, direction |-> direction]

Finish(w, result) ==
  req' = [req EXCEPT ![w].pc = "done", ![w].result = result]

\* A worker whose handler returned or threw takes the next request; its
\* record keeps the outcome of the last one until then.
Accept(w) ==
  /\ req[w].pc \in {"idle", "done"}
  /\ started < MaxOps
  /\ started' = started + 1

\* ------------------------------------------------------------ registration
Register(u, r) ==
  /\ role[u] = "NONE"
  /\ role' = [role EXCEPT ![u] = r]
  /\ accounts' = CreateAccount(u,
       IF r = "INFLUENCER" THEN "INFLUENCER_WALLET" ELSE "USER_WALLET",
       IF r = "USER" THEN InitialUserBalance ELSE 0)
  /\ UNCHANGED << transactions, entries, messages, req, started, gross,
                  shares, gateway, aux >>

\* -------------------------------------------------------------------- chat
\* ChatService.sendMessage up to the message insert: user lookup, role test,
\* balance pre-check.
SendMessage(w, senderId, receiverId) ==
  /\ Accept(w)
  /\ \/ /\ (role[senderId] = "NONE" \/ role[receiverId] = "NONE")
        /\ req' = [req EXCEPT ![w] = [Request("sendMessage") EXCEPT
                     !.pc = "done", !.u1 = senderId, !.u2 = receiverId,
                     !.result = "UserNotFound"]]
     \/ /\ role[senderId] # "NONE" /\ role[receiverId] # "NONE"
        /\ \E senderBalance \in BalanceReads(senderId) :
             IF role[senderId] = "USER" /\ senderBalance < messageCost
             THEN req' = [req EXCEPT ![w] = [Request("sendMessage") EXCEPT
                     !.pc = "done", !.u1 = senderId, !.u2 = receiverId,
                     !.result = "InsufficientBalance"]]
             ELSE req' = [req EXCEPT ![w] = [Request("sendMessage") EXCEPT
                     !.pc = "sm_create", !.u1 = senderId, !.u2 = receiverId,
                     !.amount = messageCost]]
  /\ UNCHANGED << ledger, gross, shares, gateway, aux >>

\* Variant: the payment is made whatever the sender's role.
CreateMessageChargesAll(w) ==
  /\ req[w].pc = "sm_create"
  /\ messages' = Append(messages,
       [senderId |-> req[w].u1, receiverId |-> req[w].u2])
  /\ req' = [req EXCEPT ![w].pc = "pmp_read"]
  /\ UNCHANGED << role, accounts, transactions, entries, started, gross,
                  shares, gateway, aux >>

\* prisma.message.create, then the branch on shouldChargeSender.
CreateMessage(w) ==
  /\ req[w].pc = "sm_create"
  /\ messages' = Append(messages,
       [senderId |-> req[w].u1, receiverId |-> req[w].u2])
  /\ IF role[req[w].u1] = "USER"
     THEN req' = [req EXCEPT ![w].pc = "pmp_read"]
     ELSE Finish(w, "ok")
  /\ UNCHANGED << role, accounts, transactions, entries, started, gross,
                  shares, gateway, aux >>

\* Variant: a payment refused for its balance still pushes the balance to
\* the sender.
PaymentReadNotifiesAbort(w) ==
  /\ req[w].pc = "pmp_read"
  /\ \E s \in FindFirst(Matching(req[w].u1, "USER_WALLET")),
        r \in FindFirst(Matching(req[w].u2, "USER_WALLET")),
        v \in FindFirst(RevenueRows) :
       IF s = NoAccount \/ r = NoAccount \/ v = NoAccount
       THEN Finish(w, "AccountsNotFound") /\ UNCHANGED emitted
       ELSE IF accounts[s].balance < req[w].amount
       THEN /\ Finish(w, "InsufficientBalance")
            /\ emitted' = emitted \o
                 (IF req[w].u1 \in connectedUsers
                  THEN << [userId |-> req[w].u1,
                           balance |-> accounts[s].balance,
                           txid |-> 0, seen |-> Len(transactions)] >>
                  ELSE << >>)
       ELSE /\ req' = [req EXCEPT ![w].pc = "pmp_update_s",
                                   ![w].accs = << s, r, v >>]
            /\ UNCHANGED emitted
  /\ UNCHANGED << ledger, started, gross, shares, connectedUsers, aux >>

\* processMessagePayment, the reads of its transaction: the three account
\* lookups and the balance check.
PaymentRead(w) ==
  /\ req[w].pc = "pmp_read"
  /\ \E s \in FindFirst(Matching(req[w].u1, "USER_WALLET")),
        r \in FindFirst(Matching(req[w].u2, "USER_WALLET")),
        v \in FindFirst(RevenueRows) :
       IF s = NoAccount \/ r = NoAccount \/ v = NoAccount
       THEN Finish(w, "AccountsNotFound")
       ELSE IF accounts[s].balance < req[w].amount
       THEN Finish(w, "InsufficientBalance")
       ELSE req' = [req EXCEPT ![w].pc = "pmp_update_s",
                                ![w].accs = << s, r, v >>]
  /\ UNCHANGED << ledger, started, gross, shares, gateway, aux >>

\* Row locks.  account.update takes the lock of its row and keeps it until
\* the transaction ends; the writes of the transaction are invisible to the
\* others until the commit.  The rows handler w has locked:
Locked(w) ==
  IF req[w].pc = "pmp_update_r" THEN {req[w].accs[1]}
  ELSE IF req[w].pc = "pmp_commit" THEN {req[w].accs[1], req[w].accs[2]}
  ELSE {}

\* The row the next account.update of handler w needs.
WaitsFor(w) ==
  IF req[w].pc = "pmp_update_s" THEN {req[w].accs[1]}
  ELSE IF req[w].pc = "pmp_update_r" THEN {req[w].accs[2]}
  ELSE IF req[w].pc = "pmp_commit" THEN {req[w].accs[3]}
  ELSE {}

\* Handler w waits for a row that handler x has locked.
Blocked(w, x) == w # x /\ WaitsFor(w) \cap Locked(x) # {}

RowFree(w) == \A x \in Workers : ~ Blocked(w, x)

\* transaction.create, the three entry.create and the first account.update
\* (sender, decrement): takes the lock of the sender's row.
UpdateSenderBalance(w) ==
  /\ req[w].pc = "pmp_update_s"
  /\ RowFree(w)
  /\ req' = [req EXCEPT ![w].pc = "pmp_update_r"]
  /\ UNCHANGED << ledger, started, gross, shares, gateway, aux >>

\* The second account.update (receiver, increment): takes the lock of the
\* receiver's row.
UpdateReceiverBalance(w) ==
  /\ req[w].pc = "pmp_update_r"
  /\ RowFree(w)
  /\ req' = [req EXCEPT ![w].pc = "pmp_commit"]
  /\ UNCHANGED << ledger, started, gross, shares, gateway, aux >>

\* PostgreSQL's deadlock detector: when two transactions wait for each
\* other's row, one of them is aborted with an error and rolled back.
DeadlockAbort(w) ==
  /\ \E x \in Workers : Blocked(w, x) /\ Blocked(x, w)
  /\ Finish(w, "Deadlock")
  /\ UNCHANGED << ledger, started, gross, shares, gateway, aux >>

\* processMessagePayment, the third account.update (revenue) and the commit,
\* which publishes the writes of the transaction and releases its locks; the
\* handler goes on to read the balances for the notification.
PaymentCommit(w) ==
  /\ req[w].pc = "pmp_commit"
  /\ RowFree(w)
  /\ LET amount == req[w].amount
         receiverAmount == ReceiverAmount(amount)
         revenueAmount == RevenueAmount(amount)
         id == Len(transactions) + 1
         s == req[w].accs[1]
         r == req[w].accs[2]
         v == req[w].accs[3]
     IN /\ transactions' = Append(transactions,
             NewTx("CHAT_PAYMENT", "COMPLETED", amount, req[w].u1, NoRef,
                   "generated", NoRef))
        /\ entries' = entries \o
             << NewEntry(id, s, amount, "DEBIT"),
                NewEntry(id, r, receiverAmount, "CREDIT"),
                NewEntry(id, v, revenueAmount, "CREDIT") >>
        /\ accounts' = Increment(Increment(Increment(accounts,
             s, 0 - amount), r, receiverAmount), v, revenueAmount)
        /\ req' = [req EXCEPT ![w].pc = "notify_read", ![w].txid = id]
  /\ UNCHANGED << role, messages, started, gross, shares, gateway, aux >>


\* ------------------------------------------------- top-up (GooglePayService)
\* Variant: the TOP_UP row is created before the amount is validated.
ProcessPaymentLateValidation(w, userId, amount, token) ==
  /\ Accept(w)
  /\ role[userId] # "NONE"
  /\ LET start == [Request("processPayment") EXCEPT !.u1 = userId,
                                !.amount = amount, !.ref = token]
     IN /\ transactions' = Append(transactions,
             NewTx("TOP_UP", "COMPLETED", amount, userId, NoRef, NoRef,
                   token))
        /\ IF amount < MIN_TOPUP_AMOUNT
           THEN req' = [req EXCEPT ![w] = [start EXCEPT !.pc = "done",
                          !.result = "BelowMinimum",
                          !.txid = Len(transactions) + 1]]
           ELSE req' = [req EXCEPT ![w] = [start EXCEPT !.pc = "amw_read",
                          !.txid = Len(transactions) + 1]]
  /\ UNCHANGED << role, accounts, entries, messages, gross, shares, gateway, aux >>

\* processPayment up to the call of addMoneyToWallet: amount validation, the
\* (mock) gateway verification, and transaction.create outside any
\* $transaction.  token is paymentData.paymentMethodData.tokenizationData.token;
\* the row does not store it, paymentToken keeps it as history.
ProcessPayment(w, userId, amount, token) ==
  /\ Accept(w)
  /\ role[userId] # "NONE"
  /\ LET start == [Request("processPayment") EXCEPT !.u1 = userId,
                                !.amount = amount, !.ref = token]
     IN IF amount < MIN_TOPUP_AMOUNT
        THEN /\ req' = [req EXCEPT ![w] = [start EXCEPT !.pc = "done",
                          !.result = "BelowMinimum"]]
             /\ UNCHANGED transactions
        ELSE /\ transactions' = Append(transactions,
                  NewTx("TOP_UP", "COMPLETED", amount, userId, NoRef, NoRef,
                        token))
             /\ req' = [req EXCEPT ![w] = [start EXCEPT !.pc = "amw_read",
                          !.txid = Len(transactions) + 1]]
  /\ UNCHANGED << role, accounts, entries, messages, gross, shares, gateway, aux >>

\* The entry and the balance increment of addMoneyToWallet on account id.
CreditWallet(w, accts, id) ==
  /\ entries' = Append(entries,
       NewEntry(req[w].txid, id, req[w].amount, "CREDIT"))
  /\ accounts' = Increment(accts, id, req[w].amount)
  /\ Finish(w, "ok")

\* addMoneyToWallet: the wallet lookup; when the wallet exists the entry and
\* the increment follow in the same transaction.
AddMoneyToWallet(w) ==
  /\ req[w].pc = "amw_read"
  /\ \E a \in FindFirst(Matching(req[w].u1, "USER_WALLET")) :
       IF a = NoAccount
       THEN /\ req' = [req EXCEPT ![w].pc = "amw_create"]
            /\ UNCHANGED << accounts, entries >>
       ELSE CreditWallet(w, accounts, a)
  /\ UNCHANGED << role, transactions, messages, started, gross, shares,
                  gateway, aux >>

\* addMoneyToWallet when the lookup found no wallet: account.create, the
\* entry and the increment, committed together.
AddMoneyCreateWallet(w) ==
  /\ req[w].pc = "amw_create"
  /\ CreditWallet(w, CreateAccount(req[w].u1, "USER_WALLET", 0),
                   NewAccountId(req[w].u1))
  /\ UNCHANGED << role, transactions, messages, started, gross, shares,
                  gateway, aux >>

\* --------------------------------------------- withdrawal (GooglePayService)
\* Variant: the PENDING row is created before the balance is checked.
ProcessWithdrawalRowFirst(w, userId, amount) ==
  /\ Accept(w)
  /\ role[userId] # "NONE"
  /\ LET start == [Request("processWithdrawal") EXCEPT !.u1 = userId,
                                !.amount = amount]
         fail(result) ==
           /\ req' = [req EXCEPT ![w] = [start EXCEPT !.pc = "done",
                        !.result = result]]
           /\ UNCHANGED transactions
     IN IF amount < MIN_WITHDRAWAL_AMOUNT THEN fail("BelowMinimum")
        ELSE IF amount > MAX_WITHDRAWAL_AMOUNT THEN fail("AboveMaximum")
        ELSE \E userBalance \in BalanceReads(userId) :
          /\ transactions' = Append(transactions,
               NewTx("WITHDRAWAL", "PENDING", amount, userId, NoRef,
                     NoRef, NoRef))
          /\ IF userBalance < amount
             THEN req' = [req EXCEPT ![w] = [start EXCEPT !.pc = "done",
                            !.result = "InsufficientBalance",
                            !.txid = Len(transactions) + 1]]
             ELSE req' = [req EXCEPT ![w] = [start EXCEPT !.pc = "wd_deduct",
                            !.txid = Len(transactions) + 1]]
  /\ UNCHANGED << role, accounts, entries, messages, gross, shares, gateway, aux >>

\* processWithdrawal up to the call of deductMoneyFromWallet: the bounds,
\* the balance check through getBalance and transaction.create (PENDING).
ProcessWithdrawal(w, userId, amount) ==
  /\ Accept(w)
  /\ role[userId] # "NONE"
  /\ LET start == [Request("processWithdrawal") EXCEPT !.u1 = userId,
                                !.amount = amount]
         fail(result) ==
           /\ req' = [req EXCEPT ![w] = [start EXCEPT !.pc = "done",
                        !.result = result]]
           /\ UNCHANGED transactions
     IN IF amount < MIN_WITHDRAWAL_AMOUNT THEN fail("BelowMinimum")
        ELSE IF amount > MAX_WITHDRAWAL_AMOUNT THEN fail("AboveMaximum")
        ELSE \E userBalance \in BalanceReads(userId) :
          IF userBalance < amount THEN fail("InsufficientBalance")
          ELSE /\ transactions' = Append(transactions,
                    NewTx("WITHDRAWAL", "PENDING", amount, userId, NoRef,
                          NoRef, NoRef))
               /\ req' = [req EXCEPT ![w] = [start EXCEPT !.pc = "wd_deduct",
                            !.txid = Len(transactions) + 1]]
  /\ UNCHANGED << role, accounts, entries, messages, gross, shares, gateway, aux >>

\* deductMoneyFromWallet and, when it returns, the status update to COMPLETED.
DeductMoneyFromWallet(w) ==
  /\ req[w].pc = "wd_deduct"
  /\ \E a \in FindFirst(Matching(req[w].u1, "USER_WALLET")) :
       IF a = NoAccount
       THEN /\ Finish(w, "WalletNotFound")
            /\ UNCHANGED << accounts, entries, transactions >>
       ELSE /\ entries' = Append(entries,
                 NewEntry(req[w].txid, a, req[w].amount, "DEBIT"))
            /\ accounts' = Increment(accounts, a, 0 - req[w].amount)
            /\ transactions' =
                 [transactions EXCEPT ![req[w].txid].status = "COMPLETED"]
            /\ Finish(w, "ok")
  /\ UNCHANGED << role, messages, started, gross, shares, gateway, aux >>

\* ------------------------------------------------------ holds (WalletService)
\* holdFundsForCall, the read of its transaction: lookup and balance check.
HoldFundsForCall(w, userId, estimatedAmount, callId) ==
  /\ Accept(w)
  /\ LET start == [Request("holdFundsForCall") EXCEPT !.u1 = userId,
                                !.amount = estimatedAmount, !.ref = callId]
     IN \E a \in FindFirst(Matching(userId, "ANY")) :
          IF a = NoAccount \/ accounts[a].balance < estimatedAmount
          THEN req' = [req EXCEPT ![w] = [start EXCEPT !.pc = "done",
                         !.result = "InsufficientBalance"]]
          ELSE req' = [req EXCEPT ![w] = [start EXCEPT !.pc = "hold_commit",
                         !.accs = << a >>]]
  /\ UNCHANGED << ledger, gross, shares, gateway, aux >>

\* Variant: the HELD transaction is created without its referenceId.
HoldCommitNoReference(w) ==
  /\ req[w].pc = "hold_commit"
  /\ transactions' = Append(transactions,
       NewTx("HOLD_FUNDS", "HELD", req[w].amount, req[w].u1, NoRef,
             NoRef, NoRef))
  /\ accounts' = Increment(accounts, req[w].accs[1], 0 - req[w].amount)
  /\ req' = [req EXCEPT ![w].pc = "done", ![w].result = "ok",
                         ![w].txid = Len(transactions) + 1]
  /\ UNCHANGED << role, entries, messages, started, gross, shares, gateway, aux >>

\* holdFundsForCall, the writes: the HELD transaction and the decrement.
HoldCommit(w) ==
  /\ req[w].pc = "hold_commit"
  /\ transactions' = Append(transactions,
       NewTx("HOLD_FUNDS", "HELD", req[w].amount, req[w].u1, req[w].ref,
             NoRef, NoRef))
  /\ accounts' = Increment(accounts, req[w].accs[1], 0 - req[w].amount)
  /\ req' = [req EXCEPT ![w].pc = "done", ![w].result = "ok",
                         ![w].txid = Len(transactions) + 1]
  /\ UNCHANGED << role, entries, messages, started, gross, shares, gateway, aux >>

\* Math.ceil(actualDuration / 60) * ratePerMinute
ActualCharge(actualDuration, callType) ==
  ((actualDuration + 59) \div 60)
    * (IF callType = "VIDEO" THEN RateVideo ELSE RateVoice)

SettleCallCharges(w, callId, actualDuration, callType, callerId, receiverId) ==
  /\ Accept(w)
  /\ LET actualCharge == ActualCharge(actualDuration, callType)
         start == [Request("settleCallCharges") EXCEPT !.u1 = callerId,
                                !.u2 = receiverId, !.amount = actualCharge,
                                !.ref = callId]
     IN \E a \in FindFirst(Matching(receiverId, "ANY")) :
          IF a = NoAccount
          THEN /\ req' = [req EXCEPT ![w] = [start EXCEPT !.pc = "done",
                            !.result = "AccountsNotFound"]]
               /\ UNCHANGED << transactions, accounts >>
          ELSE /\ transactions' = Append(transactions,
                    NewTx("CALL_PAYMENT", "COMPLETED", actualCharge, callerId,
                          callId, NoRef, NoRef))
               /\ accounts' = Increment(accounts, a, actualCharge)
               /\ req' = [req EXCEPT ![w] = [start EXCEPT !.pc = "done",
                            !.result = "ok", !.accs = << a >>,
                            !.txid = Len(transactions) + 1]]
  /\ UNCHANGED << role, entries, messages, gross, shares, gateway, aux >>

\* Variant: the refund also marks every transaction of the call reference
\* CANCELLED (an updateMany filtered by referenceId alone).
RefundHeldFundsCancelsAll(w, callId, userId, refundAmount) ==
  /\ Accept(w)
  /\ LET start == [Request("refundHeldFunds") EXCEPT !.u1 = userId,
                                !.amount = refundAmount, !.ref = callId]
         cancelled == [t \in DOMAIN transactions |->
                         IF transactions[t].referenceId = callId
                         THEN [transactions[t] EXCEPT !.status = "CANCELLED"]
                         ELSE transactions[t]]
     IN \E a \in FindFirst(Matching(userId, "ANY")) :
          IF a = NoAccount
          THEN /\ req' = [req EXCEPT ![w] = [start EXCEPT !.pc = "done",
                            !.result = "AccountsNotFound"]]
               /\ UNCHANGED << transactions, accounts >>
          ELSE /\ transactions' = Append(cancelled,
                    NewTx("REFUND", "COMPLETED", refundAmount, userId, callId,
                          NoRef, NoRef))
               /\ accounts' = Increment(accounts, a, refundAmount)
               /\ req' = [req EXCEPT ![w] = [start EXCEPT !.pc = "done",
                            !.result = "ok", !.accs = << a >>,
                            !.txid = Len(transactions) + 1]]
  /\ UNCHANGED << role, entries, messages, gross, shares, gateway, aux >>

\* refundHeldFunds: one transaction; the only read is the account lookup.
RefundHeldFunds(w, callId, userId, refundAmount) ==
  /\ Accept(w)
  /\ LET start == [Request("refundHeldFunds") EXCEPT !.u1 = userId,
                                !.amount = refundAmount, !.ref = callId]
     IN \E a \in FindFirst(Matching(userId, "ANY")) :
          IF a = NoAccount
          THEN /\ req' = [req EXCEPT ![w] = [start EXCEPT !.pc = "done",
                            !.result = "AccountsNotFound"]]
               /\ UNCHANGED << transactions, accounts >>
          ELSE /\ transactions' = Append(transactions,
                    NewTx("REFUND", "COMPLETED", refundAmount, userId, callId,
                          NoRef, NoRef))
               /\ accounts' = Increment(accounts, a, refundAmount)
               /\ req' = [req EXCEPT ![w] = [start EXCEPT !.pc = "done",
                            !.result = "ok", !.accs = << a >>,
                            !.txid = Len(transactions) + 1]]
  /\ UNCHANGED << role, entries, messages, gross, shares, gateway, aux >>


\* ------------------------------------------- direct charges (WalletService)
\* processMessageCharge, the reads of its transaction.
ProcessMessageCharge(w, senderId, receiverId, messageId) ==
  /\ Accept(w)
  /\ LET start == [Request("processMessageCharge") EXCEPT
                                !.u1 = senderId, !.u2 = receiverId,
                                !.amount = MESSAGE_CHARGE, !.ref = messageId]
     IN \E s \in FindFirst(Matching(senderId, "ANY")),
           r \in FindFirst(Matching(receiverId, "ANY")) :
          IF s = NoAccount \/ accounts[s].balance < MESSAGE_CHARGE
          THEN req' = [req EXCEPT ![w] = [start EXCEPT !.pc = "done",
                         !.result = "InsufficientBalance"]]
          ELSE IF r = NoAccount
          THEN req' = [req EXCEPT ![w] = [start EXCEPT !.pc = "done",
                         !.result = "AccountsNotFound"]]
          ELSE req' = [req EXCEPT ![w] = [start EXCEPT !.pc = "pmc_commit",
                         !.accs = << s, r >>]]
  /\ UNCHANGED << ledger, gross, shares, gateway, aux >>

\* processMessageCharge, the writes of its transaction.
MessageChargeCommit(w) ==
  /\ req[w].pc = "pmc_commit"
  /\ LET id == Len(transactions) + 1
         s == req[w].accs[1]
         r == req[w].accs[2]
     IN /\ transactions' = Append(transactions,
             NewTx("CHAT_PAYMENT", "COMPLETED", MESSAGE_CHARGE, req[w].u1,
                   req[w].ref, NoRef, NoRef))
        /\ entries' = entries \o
             << NewEntry(id, s, MESSAGE_CHARGE, "DEBIT"),
                NewEntry(id, r, MESSAGE_CHARGE, "CREDIT") >>
        /\ accounts' = Increment(Increment(accounts, s, 0 - MESSAGE_CHARGE),
                                 r, MESSAGE_CHARGE)
        /\ req' = [req EXCEPT ![w].pc = "done", ![w].result = "ok",
                               ![w].txid = id]
  /\ UNCHANGED << role, messages, started, gross, shares, gateway, aux >>

\* processCallPayment: one transaction, no read that its writes depend on;
\* after the commit the handler reads the balances for the notification.
ProcessCallPayment(w, initiatorId, receiverId, amount, refundAmount, callId) ==
  /\ Accept(w)
  /\ LET start == [Request("processCallPayment") EXCEPT
                                !.u1 = initiatorId, !.u2 = receiverId,
                                !.amount = amount, !.refund = refundAmount,
                                !.ref = callId]
         receiverAmount == ReceiverAmount(amount)
         revenueAmount == RevenueAmount(amount)
         id == Len(transactions) + 1
     IN \E i \in FindFirst(Matching(initiatorId, "USER_WALLET")),
           r \in FindFirst(Matching(receiverId, "USER_WALLET")),
           v \in FindFirst(RevenueRows) :
          IF i = NoAccount \/ r = NoAccount \/ v = NoAccount
          THEN /\ req' = [req EXCEPT ![w] = [start EXCEPT !.pc = "done",
                            !.result = "AccountsNotFound"]]
               /\ UNCHANGED << transactions, entries, accounts >>
          ELSE /\ transactions' = transactions \o
                    << NewTx("CALL_PAYMENT", "COMPLETED", amount, initiatorId,
                             callId, "generated", NoRef) >> \o
                    (IF refundAmount > 0
                     THEN << NewTx("REFUND", "COMPLETED", refundAmount,
                                   initiatorId, callId, "generated", NoRef) >>
                     ELSE << >>)
               /\ entries' = entries \o
                    << NewEntry(id, i, amount, "DEBIT"),
                       NewEntry(id, r, receiverAmount, "CREDIT"),
                       NewEntry(id, v, revenueAmount, "CREDIT") >> \o
                    (IF refundAmount > 0
                     THEN << NewEntry(id + 1, i, refundAmount, "CREDIT") >>
                     ELSE << >>)
               /\ accounts' = Increment(Increment(Increment(Increment(accounts,
                    i, 0 - amount), r, receiverAmount), v, revenueAmount),
                    i, IF refundAmount > 0 THEN refundAmount ELSE 0)
               /\ req' = [req EXCEPT ![w] = [start EXCEPT
                            !.pc = "notify_read", !.accs = << i, r, v >>,
                            !.txid = id]]
  /\ UNCHANGED << role, messages, gross, shares, gateway, aux >>

\* ------------------------------------------- balance notifications (gateway)
\* WalletGateway.handleConnection / handleDisconnect for a client of userId.
HandleConnection(userId) ==
  /\ userId \notin connectedUsers
  /\ connectedUsers' = connectedUsers \cup {userId}
  /\ UNCHANGED << ledger, req, started, gross, shares, emitted, aux >>

HandleDisconnect(userId) ==
  /\ userId \in connectedUsers
  /\ connectedUsers' = connectedUsers \ {userId}
  /\ UNCHANGED << ledger, req, started, gross, shares, emitted, aux >>

\* After the commit of processMessagePayment / processCallPayment:
\* await Promise.all([getBalance(payer), getBalance(receiver)]).  Either
\* query may reject (connection lost, pool timeout); the rejection leaves
\* the try block through the catch that rethrows.
GetUpdatedBalances(w) ==
  /\ req[w].pc = "notify_read"
  /\ \/ Finish(w, "NotifyFailed")
     \/ \E b1 \in BalanceReads(req[w].u1), b2 \in BalanceReads(req[w].u2) :
          req' = [req EXCEPT ![w].pc = "notify_emit",
                             ![w].bal = << b1, b2 >>,
                             ![w].seen = Len(transactions)]
  /\ UNCHANGED << ledger, started, gross, shares, gateway, aux >>

\* emitBalanceUpdate(userId, balance): sent when the user has a socket.
BalanceUpdate(w, userId, balance) ==
  IF userId \in connectedUsers
  THEN << [userId |-> userId, balance |-> balance, txid |-> req[w].txid,
           seen |-> req[w].seen] >>
  ELSE << >>

\* The continuation of the await: the two emitBalanceUpdate calls, payer
\* first, and the return of the handler.
EmitBalanceUpdates(w) ==
  /\ req[w].pc = "notify_emit"
  /\ emitted' = emitted \o BalanceUpdate(w, req[w].u1, req[w].bal[1])
                        \o BalanceUpdate(w, req[w].u2, req[w].bal[2])
  /\ req' = [req EXCEPT ![w].pc = "done", ![w].result = "ok",
                         ![w].bal = << >>, ![w].seen = 0]
  /\ UNCHANGED << ledger, started, gross, shares, connectedUsers, aux >>

\* ------------------------------------------------------ the split, in isolation
GrossAmounts == 0..MaxGross \cup {1750, 2000, 10000, 50000}

CalculateSplit ==
  /\ shares = << >>
  /\ shares' = << ReceiverAmount(gross), RevenueAmount(gross) >>
  /\ UNCHANGED << ledger, req, started, gross, gateway, aux >>

InitSplit ==
  /\ AuxInit
  /\ gross \in GrossAmounts
  /\ shares = << >>
  /\ role = [u \in Users |-> "NONE"]
  /\ accounts = RevenueBootstrap
  /\ transactions = << >>
  /\ entries = << >>
  /\ messages = << >>
  /\ req = [w \in Workers |-> Idle]
  /\ started = 0
  /\ connectedUsers = {}
  /\ emitted = << >>

NextSplit == CalculateSplit

SpecSplit == InitSplit /\ [][NextSplit]_vars

(***************************************************************************)
(* BillingService: the prices of the Billing Policy.  The constructor      *)
(* reads each price from the configuration and falls back to the default   *)
(* with ||, so a key that is not set, or set to 0, yields the default.     *)
(***************************************************************************)
MaxSeconds == 200

PRICE_PER_MESSAGE ==
  IF pricing.message = 0 THEN 100 ELSE pricing.message
PRICE_PER_MINUTE_VOICE ==
  IF pricing.voiceCall = 0 THEN 350 ELSE pricing.voiceCall
PRICE_PER_MINUTE_VIDEO ==
  IF pricing.videoCall = 0 THEN 500 ELSE pricing.videoCall

getPricingInfo ==
  [message |-> PRICE_PER_MESSAGE, voiceCall |-> PRICE_PER_MINUTE_VOICE,
   videoCall |-> PRICE_PER_MINUTE_VIDEO]

\* Math.ceil(durationInSeconds / 60) for a whole number of seconds
CeilMinutes(durationInSeconds) == (durationInSeconds + 59) \div 60

calculateActualCallCost(durationInSeconds, callType) ==
  CeilMinutes(durationInSeconds)
    * (IF callType = "VIDEO" THEN PRICE_PER_MINUTE_VIDEO
                             ELSE PRICE_PER_MINUTE_VOICE)

\* The configurations of the prices: not set, the defaults, other values.
Configurations ==
  [message : {0, 100, 10000}, voiceCall : {0, 350, 400},
   videoCall : {0, 500, 600}]

\* One call is costed by both paths: quote.cost becomes the pair of the
\* Billing Policy's cost and the cost settleCallCharges charges.
CalculateCallCost ==
  /\ quote.cost = << >>
  /\ quote' = [quote EXCEPT !.cost =
       << calculateActualCallCost(quote.durationInSeconds, quote.callType),
          ActualCharge(quote.durationInSeconds, quote.callType) >>]
  /\ UNCHANGED << ledger, req, started, gross, shares, gateway, pricing,
                  calling, chatGateway, callGateway, rtmManager >>

InitCost ==
  /\ LedgerInit
  /\ CallingInit /\ ChatGatewayInit /\ CallGatewayInit /\ RtmManagerInit
  /\ pricing \in Configurations
  /\ quote \in [durationInSeconds : 0..MaxSeconds,
                callType : {"VOICE", "VIDEO"}, cost : {<< >>}]

NextCost == CalculateCallCost

SpecCost == InitCost /\ [][NextCost]_vars

\* The chat handlers run one at a time under each configuration of the
\* message price.
InitPrice ==
  /\ LedgerInit
  /\ CallingInit /\ ChatGatewayInit /\ CallGatewayInit /\ RtmManagerInit
  /\ pricing \in {c \in Configurations : c.voiceCall = 0 /\ c.videoCall = 0}
  /\ quote = NoQuote


\* ------------------------------------------------------------ the full system
\* The role each user id registers with.
RoleOf == [u \in Users |-> IF u = "inf" THEN "INFLUENCER" ELSE "USER"]

Registered == { u \in Users : role[u] # "NONE" }
Payers == {"ua", "inf"}         \* users who send, top up, withdraw
Payees == {"ub", "inf"}         \* users who receive
Callers == {"ua"}               \* users who start calls
CallIds == {"c1"}
Tokens == {"tok1", "tok2"}
TopUpAmounts == {5000, 50000}
WithdrawalAmounts == {40000, 50000, 10000001}
HoldAmounts == {1750, 12000}
Durations == {60, 6000}
CallTypes == {"VIDEO"}
CallAmounts == {2000, 12000}
RefundAmounts == {0, 250}
MessageIds == {"m1"}

\* Requests of the chat API.
ChatStep(w) ==
  \/ \E s \in Payers \cap Registered, r \in Payees : SendMessage(w, s, r)
  \/ CreateMessage(w)
  \/ PaymentRead(w)
  \/ UpdateSenderBalance(w)
  \/ UpdateReceiverBalance(w)
  \/ PaymentCommit(w)

\* The per-message charge of the wallet service.
ChargeStep(w) ==
  \/ \E s \in Callers, r \in Payees, m \in MessageIds :
       ProcessMessageCharge(w, s, r, m)
  \/ MessageChargeCommit(w)

\* Requests of the wallet API: add-money and withdrawal.
WalletStep(w) ==
  \/ \E u \in Payers \cap Registered, a \in TopUpAmounts, t \in Tokens :
       ProcessPayment(w, u, a, t)
  \/ AddMoneyToWallet(w)
  \/ AddMoneyCreateWallet(w)
  \/ \E u \in Payers \cap Registered, a \in WithdrawalAmounts :
       ProcessWithdrawal(w, u, a)
  \/ DeductMoneyFromWallet(w)

\* Call billing of the wallet service.
CallStep(w) ==
  \/ \E u \in Callers, a \in HoldAmounts, c \in CallIds :
       HoldFundsForCall(w, u, a, c)
  \/ HoldCommit(w)
  \/ \E c \in CallIds, d \in Durations, t \in CallTypes,
        u \in Callers \cap Registered, r \in Payees :
       SettleCallCharges(w, c, d, t, u, r)
  \/ \E c \in CallIds, u \in Callers, a \in HoldAmounts :
       RefundHeldFunds(w, c, u, a)

\* The one-step call payment of the wallet service.
CallPaymentStep(w) ==
  \E i \in Callers \cap Registered, r \in Payees, a \in CallAmounts,
     f \in RefundAmounts, c \in CallIds :
    ProcessCallPayment(w, i, r, a, f, c)

RegisterStep == \E u \in Users : Register(u, RoleOf[u])

\* The users whose client opens and closes the wallet socket.
Subscribers == {"ua"}

GatewayStep ==
  \E u \in Subscribers : HandleConnection(u) \/ HandleDisconnect(u)

\* The notification part of the two payment handlers.
NotifyStep(w) == GetUpdatedBalances(w) \/ EmitBalanceUpdates(w)

\* Every request of every API, handlers running concurrently.
Next ==
  \/ RegisterStep
  \/ GatewayStep
  \/ \E w \in Workers :
       \/ ChatStep(w) \/ ChargeStep(w) \/ WalletStep(w) \/ CallStep(w)
       \/ CallPaymentStep(w) \/ NotifyStep(w)

Spec == Init /\ [][Next]_vars

\* One request at a time.
NextSeq ==
  \/ RegisterStep
  \/ GatewayStep
  \/ ChatStep("w1") \/ ChargeStep("w1") \/ WalletStep("w1") \/ CallStep("w1")
  \/ CallPaymentStep("w1") \/ NotifyStep("w1")
SpecSeq == Init /\ [][NextSeq]_vars

\* The chat API alone, handlers running concurrently.
NextChat ==
  \/ RegisterStep
  \/ GatewayStep
  \/ \E w \in Workers : ChatStep(w) \/ ChargeStep(w) \/ NotifyStep(w)
SpecChat == Init /\ [][NextChat]_vars

NextPrice ==
  \/ RegisterStep
  \/ ChatStep("w1")
  \/ ChargeStep("w1")
  \/ NotifyStep("w1")
SpecPrice == InitPrice /\ [][NextPrice]_vars

\* sendMessage alone, its handlers run concurrently.
NextSend ==
  \/ RegisterStep
  \/ \E w \in Workers : ChatStep(w) \/ NotifyStep(w)
SpecSend == Init /\ [][NextSend]_vars

\* The wallet API alone, handlers running concurrently.
NextWallet == RegisterStep \/ \E w \in Workers : WalletStep(w)
SpecWallet == Init /\ [][NextWallet]_vars

\* Holds, settlements and refunds alone, handlers running concurrently.
NextCall == RegisterStep \/ \E w \in Workers : CallStep(w)
SpecCall == Init /\ [][NextCall]_vars

\* The operations that write transaction rows without a payment split
\* (top-up, withdrawal, hold, settlement, refund), one request at a time.
NextStatus == RegisterStep \/ WalletStep("w1") \/ CallStep("w1")
SpecStatus == Init /\ [][NextStatus]_vars

\* Messages between two users in both directions, handlers running
\* concurrently.  (Under the inputs of Next every charged message is paid by
\* ua, so no two payments there lock rows in opposite order.)
Peers == {"ua", "ub"}

TransferStep(w) ==
  \/ \E s \in Peers \cap Registered :
       \E r \in Peers \ {s} : SendMessage(w, s, r)
  \/ CreateMessage(w)
  \/ PaymentRead(w)
  \/ UpdateSenderBalance(w)
  \/ UpdateReceiverBalance(w)
  \/ PaymentCommit(w)
  \/ DeadlockAbort(w)

NextTransfers ==
  \/ RegisterStep
  \/ \E w \in Workers : TransferStep(w) \/ NotifyStep(w)
SpecTransfers == Init /\ [][NextTransfers]_vars

\* The two payments that notify, with the gateway, handlers running
\* concurrently.
NextPay ==
  \/ RegisterStep
  \/ GatewayStep
  \/ \E w \in Workers : ChatStep(w) \/ CallPaymentStep(w) \/ NotifyStep(w)
SpecPay == Init /\ [][NextPay]_vars

\* ------------------------------------------------------------- CallService
MaxCalls == 1

Party(callId, userId) ==
  calls[callId].initiatorId = userId \/ calls[callId].receiverId = userId

CallFrame ==
  UNCHANGED << ledger, gross, shares, gateway, billing, chatGateway,
               callGateway, rtmManager >>

\* initiateCall: the two user lookups, call.create with status INITIATED
\* and the call.initiated event.
InitiateCall(w, initiatorId, receiverId, type) ==
  /\ Accept(w)
  /\ Len(calls) < MaxCalls
  /\ LET start == [Request("initiateCall") EXCEPT !.u1 = initiatorId,
                                                  !.u2 = receiverId]
     IN IF role[initiatorId] = "NONE" \/ role[receiverId] = "NONE"
        THEN /\ req' = [req EXCEPT ![w] = [start EXCEPT !.pc = "done",
                          !.result = "UserNotFound"]]
             /\ UNCHANGED << calls, callEvents >>
        ELSE /\ calls' = Append(calls,
                  [initiatorId |-> initiatorId, receiverId |-> receiverId,
                   type |-> type, status |-> "INITIATED", connectedAt |-> 0,
                   endedAt |-> 0, terminatedBy |-> NoUser,
                   terminationReason |-> "-", actualDuration |-> 0,
                   isCompleted |-> FALSE, writes |-> 0])
             /\ callEvents' = Append(callEvents,
                  [type |-> "call.initiated", callId |-> Len(calls) + 1,
                   by |-> initiatorId, to |-> {}])
             /\ req' = [req EXCEPT ![w] = [start EXCEPT !.pc = "done",
                          !.callId = Len(calls) + 1, !.result = "ok"]]
  /\ UNCHANGED now
  /\ CallFrame

\* startCall up to its update: call.findUnique and the checks on the row
\* that was read; a user joining a CONNECTED call returns from here.
StartCall(w, callId, userId) ==
  /\ Accept(w)
  /\ LET start == [Request("startCall") EXCEPT !.u1 = userId,
                                               !.callId = callId]
         fail(e) == /\ req' = [req EXCEPT ![w] = [start EXCEPT !.pc = "done",
                                  !.result = e]]
                    /\ UNCHANGED callEvents
     IN IF callId \notin DOMAIN calls THEN fail("CallNotFound")
        ELSE IF calls[callId].status \notin {"INITIATED", "CONNECTED"}
        THEN fail("CannotBeStarted")
        ELSE IF ~ Party(callId, userId) THEN fail("Unauthorized")
        ELSE IF calls[callId].status = "CONNECTED"
        THEN /\ callEvents' = Append(callEvents,
                  [type |-> "call.joined", callId |-> callId, by |-> userId,
                   to |-> {}])
             /\ req' = [req EXCEPT ![w] = [start EXCEPT !.pc = "done",
                          !.result = "ok"]]
        ELSE /\ req' = [req EXCEPT ![w] = [start EXCEPT !.pc = "sc_update"]]
             /\ UNCHANGED callEvents
  /\ UNCHANGED << calls, now >>
  /\ CallFrame

\* startCall, the rest: call.update to CONNECTED with connectedAt, and the
\* call.joined event.
StartCallUpdate(w) ==
  /\ req[w].pc = "sc_update"
  /\ now' = now + 1
  /\ calls' = [calls EXCEPT ![req[w].callId] =
       [@ EXCEPT !.status = "CONNECTED", !.connectedAt = now + 1,
                 !.writes = @ + 1]]
  /\ callEvents' = Append(callEvents,
       [type |-> "call.joined", callId |-> req[w].callId, by |-> req[w].u1,
        to |-> {}])
  /\ Finish(w, "ok")
  /\ UNCHANGED started
  /\ CallFrame

\* endCall up to its update: call.findUnique, the checks on the row that
\* was read and the duration since connectedAt.
EndCall(w, callId, userId) ==
  /\ Accept(w)
  /\ LET start == [Request("endCall") EXCEPT !.u1 = userId,
                                             !.callId = callId]
         fail(e) == /\ req' = [req EXCEPT ![w] = [start EXCEPT !.pc = "done",
                                  !.result = e]]
                    /\ UNCHANGED now
     IN IF callId \notin DOMAIN calls THEN fail("CallNotFound")
        ELSE IF ~ Party(callId, userId) THEN fail("Unauthorized")
        ELSE IF calls[callId].status = "ENDED" THEN fail("CallAlreadyEnded")
        ELSE /\ now' = now + 1
             /\ req' = [req EXCEPT ![w] = [start EXCEPT !.pc = "ec_update",
                  !.amount = IF calls[callId].connectedAt # 0
                             THEN now + 1 - calls[callId].connectedAt
                             ELSE 0]]
  /\ UNCHANGED << calls, callEvents >>
  /\ CallFrame

\* CallGateway.handleCallEnded, run by the call.ended event: the sockets of
\* the two participants that are in the map receive call:ended.
NotifiedOfEnd(callId) ==
  { callConnectedUsers[calls[callId].initiatorId],
    callConnectedUsers[calls[callId].receiverId] } \ {NoSocket}

\* endCall, the rest: call.update to ENDED with terminatedBy and endedAt,
\* and the call.ended event with its gateway handler.
EndCallUpdate(w) ==
  /\ req[w].pc = "ec_update"
  /\ now' = now + 1
  /\ calls' = [calls EXCEPT ![req[w].callId] =
       [@ EXCEPT !.status = "ENDED", !.actualDuration = req[w].amount,
                 !.terminatedBy = req[w].u1,
                 !.isCompleted = (req[w].amount > 0),
                 !.endedAt = now + 1, !.writes = @ + 1]]
  /\ callEvents' = Append(callEvents,
       [type |-> "call.ended", callId |-> req[w].callId, by |-> req[w].u1,
        to |-> NotifiedOfEnd(req[w].callId)])
  /\ Finish(w, "ok")
  /\ UNCHANGED started
  /\ CallFrame

\* cancelCall up to its update: call.findUnique and the checks on the row
\* that was read.
CancelCall(w, callId, userId) ==
  /\ Accept(w)
  /\ LET start == [Request("cancelCall") EXCEPT !.u1 = userId,
                                                !.callId = callId]
         fail(e) == req' = [req EXCEPT ![w] = [start EXCEPT !.pc = "done",
                               !.result = e]]
     IN IF callId \notin DOMAIN calls THEN fail("CallNotFound")
        ELSE IF ~ Party(callId, userId) THEN fail("Unauthorized")
        ELSE IF calls[callId].status # "INITIATED"
        THEN fail("CannotBeCancelled")
        ELSE req' = [req EXCEPT ![w] = [start EXCEPT !.pc = "cc_update"]]
  /\ UNCHANGED << calls, callEvents, now >>
  /\ CallFrame

\* cancelCall, the rest: call.update to FAILED with terminatedBy,
\* terminationReason CANCELLED and endedAt.
CancelCallUpdate(w) ==
  /\ req[w].pc = "cc_update"
  /\ now' = now + 1
  /\ calls' = [calls EXCEPT ![req[w].callId] =
       [@ EXCEPT !.status = "FAILED", !.terminatedBy = req[w].u1,
                 !.terminationReason = "CANCELLED", !.endedAt = now + 1,
                 !.writes = @ + 1]]
  /\ Finish(w, "ok")
  /\ UNCHANGED << started, callEvents >>
  /\ CallFrame

\* ------------------------------------------------- ChatGateway, CallGateway
ChatFrame ==
  UNCHANGED << ledger, req, started, gross, shares, gateway, billing,
               calling, callGateway, rtmManager >>

\* ChatGateway.handleConnection: only logs.
ChatHandleConnection(s) ==
  /\ chatClients[s].state = "new"
  /\ chatClients' = [chatClients EXCEPT ![s].state = "open"]
  /\ UNCHANGED userSockets
  /\ ChatFrame

\* ChatGateway.handleAuthentication ('user:register').
HandleAuthentication(s, userId) ==
  /\ chatClients[s].state = "open"
  /\ chatClients' = [chatClients EXCEPT ![s].userId = userId]
  /\ userSockets' = [userSockets EXCEPT ![userId] = s]
  /\ ChatFrame

\* ChatGateway.handleDisconnect: userSockets.delete(client.data.userId).
ChatHandleDisconnect(s) ==
  /\ chatClients[s].state = "open"
  /\ chatClients' = [chatClients EXCEPT ![s].state = "closed"]
  /\ IF chatClients[s].userId # NoUser
     THEN userSockets' = [userSockets EXCEPT ![chatClients[s].userId] =
                            NoSocket]
     ELSE UNCHANGED userSockets
  /\ ChatFrame

SocketFrame ==
  UNCHANGED << ledger, req, started, gross, shares, gateway, billing,
               calling, chatGateway, rtmManager >>

\* CallGateway.handleConnection: only logs.
CallHandleConnection(s) ==
  /\ callClients[s].state = "new"
  /\ callClients' = [callClients EXCEPT ![s].state = "open"]
  /\ UNCHANGED callConnectedUsers
  /\ SocketFrame

\* CallGateway.handleUserRegister ('user:register').
HandleUserRegister(s, userId) ==
  /\ callClients[s].state = "open"
  /\ callClients' = [callClients EXCEPT ![s].userId = userId]
  /\ callConnectedUsers' = [callConnectedUsers EXCEPT ![userId] = s]
  /\ SocketFrame

\* CallGateway.handleDisconnect: connectedUsers.delete(client.data.userId).
CallHandleDisconnect(s) ==
  /\ callClients[s].state = "open"
  /\ callClients' = [callClients EXCEPT ![s].state = "closed"]
  /\ IF callClients[s].userId # NoUser
     THEN callConnectedUsers' =
            [callConnectedUsers EXCEPT ![callClients[s].userId] = NoSocket]
     ELSE UNCHANGED callConnectedUsers
  /\ SocketFrame

\* CallGateway.handleCallEnd ('call:end'): a socket that did not register
\* is refused, any other runs endCall as its user.
HandleCallEnd(w, s, callId) ==
  /\ callClients[s].state = "open"
  /\ IF callClients[s].userId = NoUser
     THEN /\ Accept(w)
          /\ req' = [req EXCEPT ![w] = [Request("endCall") EXCEPT
                       !.pc = "done", !.callId = callId,
                       !.result = "NotAuthenticated"]]
          /\ UNCHANGED << calls, callEvents, now >>
          /\ CallFrame
     ELSE EndCall(w, callId, callClients[s].userId)

\* -------------------------------------------------- calls and sockets, specs
CallParties == {"ua", "inf"}
CallUsers == {"ua", "inf", "ub"}
SocketUsers == {"ua", "ub"}

CallServiceStep(w) ==
  \/ \E t \in CallTypes : InitiateCall(w, "ua", "inf", t)
  \/ \E u \in CallParties : StartCall(w, 1, u)
  \/ StartCallUpdate(w)
  \/ \E u \in CallUsers : EndCall(w, 1, u)
  \/ HandleCallEnd(w, "s1", 1)
  \/ EndCallUpdate(w)
  \/ \E u \in CallParties : CancelCall(w, 1, u)
  \/ CancelCallUpdate(w)

CallSocketStep(s) ==
  \/ CallHandleConnection(s)
  \/ \E u \in SocketUsers : HandleUserRegister(s, u)
  \/ CallHandleDisconnect(s)

ChatSocketStep(s) ==
  \/ ChatHandleConnection(s)
  \/ \E u \in SocketUsers : HandleAuthentication(s, u)
  \/ ChatHandleDisconnect(s)

CallRegisterStep == \E u \in CallParties : Register(u, RoleOf[u])

\* The call handlers, run concurrently, with one socket on the call gateway.
NextCalls ==
  \/ CallRegisterStep
  \/ CallSocketStep("s1")
  \/ \E w \in Workers : CallServiceStep(w)
SpecCalls == Init /\ [][NextCalls]_vars

\* The call handlers, run one at a time.
NextCallsSeq ==
  \/ CallRegisterStep
  \/ CallSocketStep("s1")
  \/ CallServiceStep("w1")
SpecCallsSeq == Init /\ [][NextCallsSeq]_vars

\* The sockets of the two gateways.
NextSockets == \E s \in Sockets : ChatSocketStep(s) \/ CallSocketStep(s)
SpecSockets == Init /\ [][NextSockets]_vars

\* -------------------------------------------------- RTMManager (useAgora.ts)
MaxRtmCalls == 2
RtmUsers == {"ua", "ub"}

RtmFrame ==
  UNCHANGED << ledger, req, started, gross, shares, gateway, billing,
               calling, chatGateway, callGateway >>

RtmStart(k, op, userId) ==
  [RtmIdle EXCEPT !.n = rtmCall[k].n + 1, !.op = op, !.userId = userId]

\* getOrCreateClient from its third test on, run without interruption on
\* the manager's fields m and the clients cl: wait for the initialization
\* in flight, or set isInitializing and start createNewClient, which
\* creates a client and awaits its login.
Initialize(k, call, m, cl) ==
  IF m.isInitializing /\ m.initializationPromise # NoClient
  THEN /\ rtm' = m
       /\ rtmClients' = cl
       /\ rtmCall' = [rtmCall EXCEPT ![k] = [call EXCEPT
            !.pc = "wait_promise", !.awaits = m.initializationPromise]]
  ELSE /\ rtm' = [m EXCEPT !.isInitializing = TRUE,
                           !.initializationPromise = Len(cl) + 1]
       /\ rtmClients' = Append(cl,
            [uid |-> call.userId, state |-> "logging_in"])
       /\ rtmCall' = [rtmCall EXCEPT ![k] = [call EXCEPT
            !.pc = "init_wait", !.awaits = Len(cl) + 1]]

\* getOrCreateClient up to its first await.
GetOrCreateClient(k, userId) ==
  /\ rtmCall[k].pc \in {"idle", "done"}
  /\ rtmCall[k].n < MaxRtmCalls
  /\ LET call == RtmStart(k, "getOrCreateClient", userId)
     IN IF rtm.rtmClient # NoClient /\ rtm.currentUserId = userId
        THEN /\ rtmCall' = [rtmCall EXCEPT ![k] = [call EXCEPT
                  !.pc = "done", !.got = rtm.rtmClient, !.result = "ok"]]
             /\ UNCHANGED << rtm, rtmClients >>
        ELSE IF rtm.rtmClient # NoClient
        THEN /\ rtmCall' = [rtmCall EXCEPT ![k] = [call EXCEPT
                  !.pc = "cleanup_wait", !.awaits = rtm.rtmClient]]
             /\ UNCHANGED << rtm, rtmClients >>
        ELSE Initialize(k, call, rtm, rtmClients)
  /\ RtmFrame

\* cleanup, called on its own, up to its await of rtmClient.logout().
Cleanup(k) ==
  /\ rtmCall[k].pc \in {"idle", "done"}
  /\ rtmCall[k].n < MaxRtmCalls
  /\ LET call == RtmStart(k, "cleanup", NoUser)
     IN IF rtm.rtmClient # NoClient
        THEN rtmCall' = [rtmCall EXCEPT ![k] = [call EXCEPT
               !.pc = "cleanup_wait", !.awaits = rtm.rtmClient]]
        ELSE rtmCall' = [rtmCall EXCEPT ![k] = [call EXCEPT
               !.pc = "done", !.result = "ok"]]
  /\ UNCHANGED << rtm, rtmClients >>
  /\ RtmFrame

\* The logout settles and cleanup continues: on success the two fields are
\* reset, a rejection is caught and logged.  Inside getOrCreateClient the
\* caller then goes on to initialize.  The logout of a client that is not
\* logged in rejects; the logout of a logged-in client may do either.
LogoutCompletes(k) ==
  /\ rtmCall[k].pc = "cleanup_wait"
  /\ LET c == rtmCall[k].awaits
     IN \E logoutOk \in {TRUE, FALSE} :
          /\ logoutOk => rtmClients[c].state = "logged_in"
          /\ LET m == IF logoutOk
                      THEN [rtm EXCEPT !.rtmClient = NoClient,
                                       !.currentUserId = NoUser]
                      ELSE rtm
                 cl == IF logoutOk
                       THEN [rtmClients EXCEPT ![c].state = "logged_out"]
                       ELSE rtmClients
             IN IF rtmCall[k].op = "cleanup"
                THEN /\ rtm' = m
                     /\ rtmClients' = cl
                     /\ rtmCall' = [rtmCall EXCEPT ![k].pc = "done",
                                                   ![k].result = "ok"]
                ELSE Initialize(k, rtmCall[k], m, cl)
  /\ RtmFrame

\* client.login settles and the caller that started the initialization
\* continues: it stores the client and the user id, or rethrows; finally
\* it clears isInitializing and initializationPromise.
LoginCompletes(k) ==
  /\ rtmCall[k].pc = "init_wait"
  /\ LET c == rtmCall[k].awaits
     IN \/ /\ rtmClients' = [rtmClients EXCEPT ![c].state = "logged_in"]
           /\ rtm' = [rtmClient |-> c, currentUserId |-> rtmCall[k].userId,
                      isInitializing |-> FALSE,
                      initializationPromise |-> NoClient]
           /\ rtmCall' = [rtmCall EXCEPT ![k].pc = "done", ![k].got = c,
                                         ![k].result = "ok"]
        \/ /\ rtmClients' = [rtmClients EXCEPT ![c].state = "login_failed"]
           /\ rtm' = [rtm EXCEPT !.isInitializing = FALSE,
                                 !.initializationPromise = NoClient]
           /\ rtmCall' = [rtmCall EXCEPT ![k].pc = "done",
                                         ![k].result = "LoginFailed"]
  /\ RtmFrame

\* A caller that waited for the initialization in flight receives what the
\* promise settled to.
PromiseSettled(k) ==
  /\ rtmCall[k].pc = "wait_promise"
  /\ rtmClients[rtmCall[k].awaits].state # "logging_in"
  /\ IF rtmClients[rtmCall[k].awaits].state = "login_failed"
     THEN rtmCall' = [rtmCall EXCEPT ![k].pc = "done",
                                     ![k].result = "LoginFailed"]
     ELSE rtmCall' = [rtmCall EXCEPT ![k].pc = "done",
                        ![k].got = rtmCall[k].awaits, ![k].result = "ok"]
  /\ UNCHANGED << rtm, rtmClients >>
  /\ RtmFrame

RtmStep(k) ==
  \/ \E u \in RtmUsers : GetOrCreateClient(k, u)
  \/ Cleanup(k)
  \/ LogoutCompletes(k)
  \/ LoginCompletes(k)
  \/ PromiseSettled(k)

NextRtm == \E k \in RtmCallers : RtmStep(k)
SpecRtm == Init /\ [][NextRtm]_vars

\* ------------------------------------------------------------------ claims
\* Sum of the amounts of the entries that satisfy Test.
SumEntries(Test(_)) ==
  LET RECURSIVE Sum(_)
      Sum(k) == IF k = 0 THEN 0
                ELSE (IF Test(entries[k]) THEN entries[k].amount ELSE 0)
                       + Sum(k - 1)
  IN Sum(Len(entries))

CreditsOfTx(t) ==
  LET Test(e) == e.transactionId = t /\ e.direction = "CREDIT"
  IN SumEntries(Test)

DebitsOfTx(t) ==
  LET Test(e) == e.transactionId = t /\ e.direction = "DEBIT"
  IN SumEntries(Test)

CreditsOnAccount(a) ==
  LET Test(e) == e.accountId = a /\ e.direction = "CREDIT"
  IN SumEntries(Test)

DebitsOnAccount(a) ==
  LET Test(e) == e.accountId = a /\ e.direction = "DEBIT"
  IN SumEntries(Test)

\* Worker w takes a step that accepts a request of operation op.
Accepts(w, op) == req'[w].n # req[w].n /\ req'[w].op = op

\* Worker w takes the step in which its handler returns or throws.
Returns(w) == req[w].pc # "done" /\ req'[w].pc = "done"

\* C1: for every transaction row, the sum of its CREDIT entry amounts
\* equals the sum of its DEBIT entry amounts.
EntriesNetToZero ==
  \A t \in DOMAIN transactions : CreditsOfTx(t) = DebitsOfTx(t)

\* C2: for every account, the stored balance equals the sum of the CREDIT
\* entries minus the sum of the DEBIT entries recorded against it.
BalanceMatchesEntries ==
  \A a \in DOMAIN accounts :
    accounts[a].balance = CreditsOnAccount(a) - DebitsOnAccount(a)

\* C3: top-ups with the same payment token produce one TOP_UP transaction;
\* the replay does not create a second row (nor a second credit).
TopUpIdempotent ==
  \A t1, t2 \in DOMAIN transactions :
    ( /\ transactions[t1].type = "TOP_UP"
      /\ transactions[t2].type = "TOP_UP"
      /\ transactions[t1].paymentToken = transactions[t2].paymentToken )
    => t1 = t2

\* C4: no wallet balance is ever negative.
NoNegativeBalance ==
  \A a \in DOMAIN accounts : accounts[a].balance >= 0

\* C5: the balance check of a debit and the debit itself are not interleaved
\* with another debit of the same wallet: when the debit of a message charge
\* or of a withdrawal is applied, the wallet still covers the amount that
\* was checked.
DebitsSerialized ==
  [][\A w \in Workers :
       /\ (req[w].pc = "pmp_commit" /\ req'[w].pc # "pmp_commit")
            => accounts[req[w].accs[1]].balance >= req[w].amount
       /\ (req[w].pc = "wd_deduct" /\ Returns(w) /\ req'[w].result = "ok")
            => \E a \in Matching(req[w].u1, "USER_WALLET") :
                 accounts[a].balance >= req[w].amount
    ]_vars

\* The amount held on a call reference, 0 without a hold.
HeldAmount(callId) ==
  IF \E t \in DOMAIN transactions :
       /\ transactions[t].type = "HOLD_FUNDS"
       /\ transactions[t].referenceId = callId
  THEN LET t == CHOOSE t \in DOMAIN transactions :
                  /\ transactions[t].type = "HOLD_FUNDS"
                  /\ transactions[t].referenceId = callId
       IN transactions[t].amount
  ELSE 0

\* The call reference already has a settlement or a refund.
Resolved(callId) ==
  \E t \in DOMAIN transactions :
    /\ transactions[t].referenceId = callId
    /\ transactions[t].type \in {"CALL_PAYMENT", "REFUND"}

\* C6: a hold is resolved once: a settlement or a refund for a held
\* reference that already has a settlement or a refund fails and changes no
\* balance and creates no transaction.
HoldResolvedOnce ==
  [][\A w \in Workers :
       ( /\ Accepts(w, "settleCallCharges") \/ Accepts(w, "refundHeldFunds")
         /\ HeldAmount(req'[w].ref) > 0
         /\ Resolved(req'[w].ref) )
       => /\ req'[w].result # "ok"
          /\ accounts' = accounts
          /\ transactions' = transactions
    ]_vars

\* C7: an operation whose ledger step failed leaves no transaction row of
\* its own behind (a failure of the notification after the commit is not a
\* ledger step).
FailedLeavesNothing ==
  \A w \in Workers :
    (req[w].pc = "done" /\ req[w].result \notin {"ok", "NotifyFailed"})
      => req[w].txid = 0

\* The three entries of a message charge of amount g from account s to
\* account r with revenue account v, as transaction t.
ThreeEntries(t, s, r, v, g) ==
  /\ Cardinality({ k \in DOMAIN entries : entries[k].transactionId = t }) = 3
  /\ \E k \in DOMAIN entries : entries[k] = NewEntry(t, s, g, "DEBIT")
  /\ \E k \in DOMAIN entries :
       entries[k] = NewEntry(t, r, (g * 9) \div 10, "CREDIT")
  /\ \E k \in DOMAIN entries :
       entries[k] = NewEntry(t, v, g - (g * 9) \div 10, "CREDIT")

\* C9: a message from a paying user whose balance covers the cost to an
\* influencer is charged: one CHAT_PAYMENT transaction with three entries,
\* debit of the sender's wallet, credit of 90% to the influencer's wallet,
\* credit of the remainder to the revenue account.
MessageToInfluencerCharged ==
  \A w \in Workers :
    ( /\ req[w].op = "sendMessage"
      /\ req[w].pc = "done"
      /\ req[w].result \notin
           {"UserNotFound", "InsufficientBalance", "NotifyFailed"}
      /\ role[req[w].u1] = "USER"
      /\ role[req[w].u2] = "INFLUENCER" )
    => /\ req[w].result = "ok"
       /\ req[w].txid \in DOMAIN transactions
       /\ transactions[req[w].txid].type = "CHAT_PAYMENT"
       /\ \E s \in Matching(req[w].u1, "ANY"), r \in Matching(req[w].u2, "ANY"),
             v \in RevenueRows :
            ThreeEntries(req[w].txid, s, r, v, req[w].amount)

\* Sum of the balances of the accounts of a user (NoUser: system accounts).
BalanceOf(accts, userId) ==
  LET RECURSIVE Sum(_)
      Sum(S) == IF S = {} THEN 0
                ELSE LET a == CHOOSE a \in S : TRUE
                     IN accts[a].balance + Sum(S \ {a})
  IN Sum({ a \in DOMAIN accts : accts[a].userId = userId })

\* C10: a settlement of an unresolved hold of h with an actual amount a <= h
\* credits the payee 90% of a, credits the revenue account the fee and
\* refunds h - a to the payer, in one step.
SettleSplitsAndRefunds ==
  [][\A w \in Workers :
       ( /\ Accepts(w, "settleCallCharges")
         /\ HeldAmount(req'[w].ref) > 0
         /\ ~ Resolved(req'[w].ref)
         /\ req'[w].amount <= HeldAmount(req'[w].ref)
         /\ role[req'[w].u2] # "NONE" )
       => LET a == req'[w].amount
              h == HeldAmount(req'[w].ref)
          IN /\ req'[w].result = "ok"
             /\ BalanceOf(accounts', req'[w].u2)
                  = BalanceOf(accounts, req'[w].u2) + (a * 9) \div 10
             /\ BalanceOf(accounts', NoUser)
                  = BalanceOf(accounts, NoUser) + (a - (a * 9) \div 10)
             /\ BalanceOf(accounts', req'[w].u1)
                  = BalanceOf(accounts, req'[w].u1) + (h - a)
    ]_vars

\* C8: for every gross amount G the split yields payeeShare = floor(G * 0.9)
\* and platformFee = G - payeeShare, so the two shares sum to G exactly and
\* the rounding remainder goes to the platform.
SplitCorrect ==
  shares # << >> =>
    /\ shares[1] = (gross * 9) \div 10
    /\ shares[2] = gross - shares[1]
    /\ shares[1] + shares[2] = gross
    /\ shares[2] * 10 >= gross

\* A gross amount whose 90% is not whole: 94.5 is floored to 94, fee 11.
SplitWitness == shares = << 94, 11 >> /\ gross = 105

\* ------------------------------------------------------ holds and withdrawals
\* The HOLD_FUNDS rows of a call reference.
HoldsOf(txs, callId) ==
  { t \in DOMAIN txs :
      txs[t].type = "HOLD_FUNDS" /\ txs[t].referenceId = callId }

\* C11: a refund of an unresolved hold by its payer credits the payer the
\* held amount, so the balance is back at its value before the hold, and
\* marks the hold transaction CANCELLED.
RefundRestoresAndCancels ==
  [][\A w \in Workers :
       ( /\ Accepts(w, "refundHeldFunds")
         /\ HoldsOf(transactions, req'[w].ref) # {}
         /\ ~ Resolved(req'[w].ref)
         /\ \A t \in HoldsOf(transactions, req'[w].ref) :
              transactions[t].userId = req'[w].u1 )
       => /\ req'[w].result = "ok"
          /\ BalanceOf(accounts', req'[w].u1)
               = BalanceOf(accounts, req'[w].u1) + HeldAmount(req'[w].ref)
          /\ \A t \in HoldsOf(transactions', req'[w].ref) :
               transactions'[t].status = "CANCELLED"
    ]_vars

\* C12: a hold on a wallet that covers the amount debits exactly the amount
\* and appends one HELD transaction carrying the reference; a hold on a
\* wallet that does not cover it fails with insufficient funds and writes
\* nothing.
HoldDebitsOrFails ==
  [][\A w \in Workers :
       /\ Accepts(w, "holdFundsForCall") =>
            LET u == req'[w].u1
                a == req'[w].amount
            IN /\ accounts' = accounts
               /\ transactions' = transactions
               /\ (\A i \in Matching(u, "ANY") : accounts[i].balance < a)
                    => /\ req'[w].pc = "done"
                       /\ req'[w].result = "InsufficientBalance"
               /\ ( /\ Matching(u, "ANY") # {}
                    /\ \A i \in Matching(u, "ANY") : accounts[i].balance >= a )
                    => req'[w].pc = "hold_commit"
       /\ (req[w].pc = "hold_commit" /\ req'[w].pc # "hold_commit") =>
            LET u == req[w].u1
                a == req[w].amount
            IN /\ req'[w].result = "ok"
               /\ transactions' = Append(transactions,
                    NewTx("HOLD_FUNDS", "HELD", a, u, req[w].ref, NoRef, NoRef))
               /\ BalanceOf(accounts', u) = BalanceOf(accounts, u) - a
               /\ \A o \in (Users \cup {NoUser}) \ {u} :
                    BalanceOf(accounts', o) = BalanceOf(accounts, o)
    ]_vars

\* One hold went through (balance 10000, amount 1750) and one was refused
\* (amount 12000).
HoldWitness ==
  \E w, x \in Workers :
    /\ req[w].op = "holdFundsForCall" /\ req[w].result = "ok"
    /\ req[w].txid \in DOMAIN transactions
    /\ transactions[req[w].txid].status = "HELD"
    /\ transactions[req[w].txid].referenceId = "c1"
    /\ req[x].op = "holdFundsForCall"
    /\ req[x].result = "InsufficientBalance" /\ req[x].amount = 12000

\* C13: a withdrawal within the bounds whose amount exceeds the balance of
\* the user fails with insufficient funds, creates no transaction and
\* changes no balance.
WithdrawalOverBalanceFails ==
  [][\A w \in Workers :
       ( /\ Accepts(w, "processWithdrawal")
         /\ req'[w].amount >= MIN_WITHDRAWAL_AMOUNT
         /\ req'[w].amount <= MAX_WITHDRAWAL_AMOUNT
         /\ \A i \in Matching(req'[w].u1, "ANY") :
              accounts[i].balance < req'[w].amount )
       => /\ req'[w].pc = "done"
          /\ req'[w].result = "InsufficientBalance"
          /\ transactions' = transactions
          /\ entries' = entries
          /\ accounts' = accounts
    ]_vars

\* After a top-up of 50000 and a withdrawal of 50000 the wallet holds 10000
\* and a second withdrawal of 50000 was refused.
WithdrawalRefusedWitness ==
  \E w \in Workers :
    /\ req[w].op = "processWithdrawal" /\ req[w].pc = "done"
    /\ req[w].result = "InsufficientBalance"
    /\ req[w].amount = 50000
    /\ BalanceOf(accounts, req[w].u1) = 10000
    /\ \E t \in DOMAIN transactions :
         /\ transactions[t].type = "WITHDRAWAL"
         /\ transactions[t].status = "COMPLETED"
         /\ transactions[t].userId = req[w].u1

\* C14: a top-up below the minimum and a withdrawal outside [min, max] fail
\* with a validation error and persist no transaction, no entry and no
\* balance change.
ValidationBeforeMutation ==
  [][\A w \in Workers :
       ( \/ /\ Accepts(w, "processPayment")
            /\ req'[w].amount < MIN_TOPUP_AMOUNT
         \/ /\ Accepts(w, "processWithdrawal")
            /\ \/ req'[w].amount < MIN_WITHDRAWAL_AMOUNT
               \/ req'[w].amount > MAX_WITHDRAWAL_AMOUNT )
       => /\ req'[w].pc = "done"
          /\ req'[w].result \in {"BelowMinimum", "AboveMaximum"}
          /\ transactions' = transactions
          /\ entries' = entries
          /\ accounts' = accounts
    ]_vars

\* A top-up of 5000 and a withdrawal of 10000001 were both rejected.
ValidationWitness ==
  \E w, x \in Workers :
    /\ req[w].op = "processPayment" /\ req[w].result = "BelowMinimum"
    /\ req[w].amount = 5000
    /\ req[x].op = "processWithdrawal" /\ req[x].result = "AboveMaximum"
    /\ req[x].amount = 10000001

\* C15: each user owns at most one wallet account and there is exactly one
\* REVENUE account.
OneWalletPerUser ==
  /\ \A u \in Users : Cardinality(Matching(u, "ANY")) <= 1
  /\ Cardinality(RevenueRows) = 1

\* C16: a transaction whose status is COMPLETED, FAILED or CANCELLED never
\* changes again; a change of a transaction is a change of its status and
\* starts from PENDING or HELD.
TerminalStatusImmutable ==
  [][\A t \in DOMAIN transactions :
       /\ t \in DOMAIN transactions'
       /\ transactions'[t] # transactions[t]
            => /\ transactions[t].status \in {"PENDING", "HELD"}
               /\ transactions'[t]
                    = [transactions[t] EXCEPT
                         !.status = transactions'[t].status]
    ]_vars

\* A withdrawal went from PENDING to COMPLETED and a later operation added
\* a transaction after it.
TerminalWitness ==
  \E t \in DOMAIN transactions :
    /\ transactions[t].type = "WITHDRAWAL"
    /\ transactions[t].status = "COMPLETED"
    /\ t < Len(transactions)

\* ---------------------------------------------------- balance notifications
\* C17: a failure while the balances for the notification are read does not
\* undo the committed payment and does not make the handler report a
\* failure: a payment handler that returned after its commit returned
\* normally.
NotifyFailureSwallowed ==
  \A w \in Workers :
    ( /\ req[w].pc = "done"
      /\ req[w].op \in {"sendMessage", "processCallPayment"}
      /\ req[w].txid # 0 )
    => /\ req[w].txid \in DOMAIN transactions
       /\ req[w].result = "ok"

\* C18: every balance notification was sent by a handler whose transaction
\* had committed, with a balance read after that commit; a payment that
\* aborts commits no transaction and so sends none.
NotifyOnlyAfterCommit ==
  /\ \A k \in DOMAIN emitted :
       /\ emitted[k].txid \in DOMAIN transactions
       /\ transactions[emitted[k].txid].status = "COMPLETED"
       /\ transactions[emitted[k].txid].type
            \in {"CHAT_PAYMENT", "CALL_PAYMENT"}
       /\ emitted[k].seen >= emitted[k].txid
  /\ \A w \in Workers :
       ( /\ req[w].pc = "done"
         /\ req[w].result \in {"UserNotFound", "InsufficientBalance",
                               "AccountsNotFound"} )
       => req[w].txid = 0

\* The subscriber ua was told its balance 0 after paying for a message, and
\* a further message of ua was refused for its balance.
NotifyWitness ==
  /\ \E k \in DOMAIN emitted :
       emitted[k].userId = "ua" /\ emitted[k].balance = 0
  /\ \E w \in Workers :
       /\ req[w].op = "sendMessage" /\ req[w].pc = "done"
       /\ req[w].n > 1
       /\ req[w].result = "InsufficientBalance"

\* C19: the notifications of one user arrive in the order in which their
\* balances were read: no notification carries a balance older than, and
\* different from, one delivered to the same user before it.
NotificationsInOrder ==
  \A i, j \in DOMAIN emitted :
    ( /\ i < j
      /\ emitted[i].userId = emitted[j].userId
      /\ emitted[i].balance # emitted[j].balance )
    => emitted[i].seen <= emitted[j].seen

\* ------------------------------------------------------------------ locking
\* C20: payments lock the rows they update in one global order, so two
\* payments in opposite directions never wait for each other.
NoDeadlock ==
  \A w, x \in Workers : ~ (Blocked(w, x) /\ Blocked(x, w))

\* C21: the call cost is ceil(durationSeconds / 60) times the per-minute rate
\* of the call kind in force, it is never below the exact pro rata cost, and
\* the settlement path charges the same value as the Billing Policy.
CallCostAgrees ==
  quote.cost # << >> =>
    LET rate == IF quote.callType = "VIDEO" THEN getPricingInfo.videoCall
                                            ELSE getPricingInfo.voiceCall
    IN /\ quote.cost[1] = CeilMinutes(quote.durationInSeconds) * rate
       /\ quote.cost[1] * 60 >= quote.durationInSeconds * rate
       /\ quote.cost[2] = quote.cost[1]

\* C22: a message of a sender that is not a paying role makes no ledger call:
\* its handler stores the message and returns, creating no transaction or
\* entry and changing no balance; a message of a paying sender enters the
\* payment once, right after the message is stored, and a payment that
\* commits adds exactly one CHAT_PAYMENT of the message cost.
NonPayingSenderSkipsLedger ==
  [][\A w \in Workers :
       (req[w].op = "sendMessage" /\ req'[w] # req[w]) =>
         /\ (req[w].pc = "sm_create" /\ role[req[w].u1] # "USER") =>
               /\ req'[w].pc = "done" /\ req'[w].result = "ok"
               /\ req'[w].txid = 0
               /\ UNCHANGED << accounts, transactions, entries >>
         /\ (req[w].pc = "sm_create" /\ role[req[w].u1] = "USER") =>
               req'[w].pc = "pmp_read"
         /\ (req'[w].pc = "pmp_read" /\ req'[w].op = "sendMessage") =>
               req[w].pc = "sm_create" /\ role[req[w].u1] = "USER"
         /\ (req[w].pc = "pmp_commit" /\ req'[w].pc = "notify_read") =>
               /\ Len(transactions') = Len(transactions) + 1
               /\ transactions'[Len(transactions')].type = "CHAT_PAYMENT"
               /\ transactions'[Len(transactions')].amount = messageCost
    ]_vars

\* An influencer's message and a user's message are both stored, and the
\* only transaction is the payment of the user's message.
NonPayingSenderWitness ==
  /\ \E i \in DOMAIN messages : messages[i].senderId = "inf"
  /\ \E i \in DOMAIN messages : messages[i].senderId = "ua"
  /\ Len(transactions) = 1
  /\ transactions[1].type = "CHAT_PAYMENT"
  /\ \E w \in Workers :
       /\ req[w].op = "sendMessage" /\ req[w].pc = "done"
       /\ req[w].u1 = "inf" /\ req[w].result = "ok" /\ req[w].txid = 0

\* C23: the amount sendMessage charges for a message is the message price
\* the billing service reports, under every configuration of that price.
MessageChargeIsBillingPrice ==
  \A w \in Workers :
    (req[w].op = "sendMessage" /\ req[w].txid \in DOMAIN transactions) =>
      /\ transactions[req[w].txid].type = "CHAT_PAYMENT"
      /\ transactions[req[w].txid].amount = getPricingInfo.message

\* ------------------------------------------------------- calls and sockets
EndedEvents(callId) ==
  { i \in DOMAIN callEvents :
      callEvents[i].type = "call.ended" /\ callEvents[i].callId = callId }

\* C24: a call is ended at most once: at most one call.ended event is
\* emitted for it, and an endCall handler that writes the row finds it not
\* ENDED, so the row is written to ENDED once.
CallEndedOnce ==
  /\ \A c \in DOMAIN calls : Cardinality(EndedEvents(c)) <= 1
  /\ \A w \in Workers :
       (req[w].op = "endCall" /\ req[w].pc = "done"
        /\ req[w].result = "ok") =>
         Cardinality(EndedEvents(req[w].callId)) = 1

\* C25: the status of a call changes only along INITIATED -> CONNECTED ->
\* ENDED, INITIATED -> ENDED and INITIATED -> FAILED, and a call that is
\* ENDED or FAILED keeps its status, endedAt and terminatedBy.
CallStatusPaths ==
  [][\A c \in DOMAIN calls :
       /\ calls'[c].status # calls[c].status =>
            << calls[c].status, calls'[c].status >> \in
              { << "INITIATED", "CONNECTED" >>, << "CONNECTED", "ENDED" >>,
                << "INITIATED", "ENDED" >>, << "INITIATED", "FAILED" >> }
       /\ calls[c].status \in {"ENDED", "FAILED"} =>
            /\ calls'[c].status = calls[c].status
            /\ calls'[c].endedAt = calls[c].endedAt
            /\ calls'[c].terminatedBy = calls[c].terminatedBy
    ]_vars

\* C26: in the chat gateway and in the call gateway, a user with a
\* connected socket registered under their id is in the user-to-socket map.
RegisteredUserOnline ==
  \A u \in Users :
    /\ (\E s \in Sockets : chatClients[s] = [state |-> "open", userId |-> u])
         => userSockets[u] # NoSocket
    /\ (\E s \in Sockets : callClients[s] = [state |-> "open", userId |-> u])
         => callConnectedUsers[u] # NoSocket

\* --------------------------------------------------------- conservation
\* The sum of all account balances.
TotalBalance(accts) ==
  LET RECURSIVE Sum(_)
      Sum(S) == IF S = {} THEN 0
                ELSE LET a == CHOOSE a \in S : TRUE
                     IN accts[a].balance + Sum(S \ {a})
  IN Sum(DOMAIN accts)

\* C27: a step of processMessagePayment or processCallPayment, the refund
\* leg of processCallPayment included, leaves the sum of all account
\* balances unchanged.
TransfersConserveTotal ==
  [][\A w \in Workers :
       (req'[w] # req[w]
        /\ req'[w].op \in {"sendMessage", "processCallPayment"}) =>
         TotalBalance(accounts') = TotalBalance(accounts)
    ]_vars

\* The sum of the amounts of the transactions of a type for a reference.
SumTx(type, callId) ==
  LET RECURSIVE Sum(_)
      Sum(S) == IF S = {} THEN 0
                ELSE LET t == CHOOSE t \in S : TRUE
                     IN transactions[t].amount + Sum(S \ {t})
  IN Sum({ t \in DOMAIN transactions :
            /\ transactions[t].type = type
            /\ transactions[t].referenceId = callId })

\* C28: for every call reference, what settlements credited to the payee
\* plus what refunds credited to the payer is at most what holds debited
\* from the payer.
ResolvedWithinHold ==
  \A c \in CallIds :
    SumTx("CALL_PAYMENT", c) + SumTx("REFUND", c) <= SumTx("HOLD_FUNDS", c)

\* A sendMessage handler is between its message.create and the end of its
\* payment transaction.
InPayment(w) ==
  /\ req[w].op = "sendMessage"
  /\ req[w].pc \in {"pmp_read", "pmp_update_s", "pmp_update_r", "pmp_commit"}

\* C29: when no sendMessage is between storing its message and the end of
\* its payment, the stored messages of paying senders and the committed
\* CHAT_PAYMENT transactions are equally many, one payment per message.
MessageHasItsCharge ==
  (\A w \in Workers : ~ InPayment(w)) =>
    Cardinality({ i \in DOMAIN messages :
                    role[messages[i].senderId] = "USER" })
      = Cardinality({ t \in DOMAIN transactions :
                        transactions[t].type = "CHAT_PAYMENT" })

\* ----------------------------------------------------------- RTM manager
LoggedIn == { c \in DOMAIN rtmClients : rtmClients[c].state = "logged_in" }

\* C30: at most one RTM client is logged in at a time, and the client a
\* getOrCreateClient call returned was logged in with the user id the
\* caller passed.
SingleRtmClient ==
  /\ Cardinality(LoggedIn) <= 1
  /\ \A k \in RtmCallers :
       (rtmCall[k].op = "getOrCreateClient" /\ rtmCall[k].pc = "done"
        /\ rtmCall[k].result = "ok") =>
         rtmClients[rtmCall[k].got].uid = rtmCall[k].userId


====
